---------------------------- MODULE Spec2Model ----------------------------
(***************************************************************************)
(* Authentication and session lifecycle of src/nodejs/server.js:           *)
(* POST /register, POST /login, POST /logout, GET /dashboard and POST       *)
(* /contact running behind the express-session middleware, over a user     *)
(* collection with a unique index on email, a contact collection and a     *)
(* session collection keyed by session id whose records expire.            *)
(*                                                                         *)
(* Every handler is split at its suspension points (each await / store     *)
(* callback), so concurrent requests interleave exactly where the event    *)
(* loop lets them.  Each store operation may fail.                         *)
(***************************************************************************)
EXTENDS Integers, FiniteSets, Sequences, TLC

(***************************************************************************)
(* Bounds and input domains                                                *)
(***************************************************************************)
\* Total number of requests the clients send in one behaviour.
MaxRequests == 4

\* The clock stops after this many ticks.
MaxTime == 3

Clients == {"c1", "c2"}

\* A body field that the client did not send (JavaScript undefined).
Undefined == "<undefined>"

\* Request bodies sent to POST /register: the valid ones, and one for every
\* way of leaving out or emptying a field.
RegisterBodies ==
    { [username |-> "alice", email |-> "a@x.com", password |-> "secret"],
      [username |-> "bob",   email |-> "a@x.com", password |-> "hunter2"],
      [username |-> "bob",   email |-> "b@x.com", password |-> "secret"],
      [username |-> Undefined, email |-> "a@x.com", password |-> "secret"],
      [username |-> "",      email |-> "a@x.com", password |-> "secret"],
      [username |-> "alice", email |-> Undefined, password |-> "secret"],
      [username |-> "alice", email |-> "",        password |-> "secret"],
      [username |-> "alice", email |-> "a@x.com", password |-> Undefined],
      [username |-> "alice", email |-> "a@x.com", password |-> ""] }

\* Request bodies sent to POST /login.
LoginBodies ==
    { [username |-> Undefined, email |-> e, password |-> p] :
        e \in {"a@x.com", "b@x.com", Undefined},
        p \in {"secret", "hunter2", Undefined} }

\* Request bodies sent to POST /contact: a complete one and one without its
\* message.
ContactBodies ==
    { [name |-> "alice", email |-> "a@x.com", message |-> "hello"],
      [name |-> "alice", email |-> "a@x.com", message |-> Undefined] }

\* Routes without a body that the handler reads.
NoBody == [username |-> Undefined, email |-> Undefined, password |-> Undefined]

(***************************************************************************)
(* Values                                                                  *)
(***************************************************************************)
\* No session id: the request carries no connect.sid cookie.
NoSid == 0

\* No user id bound to a session (req.session.userId is undefined).
NoUserId == 0

\* The hash of nothing (hashedPassword before bcrypt.hash has run).
NoHash == [cost |-> 0, salt |-> 0, digest |-> <<0, "">>]

\* null, as User.findOne returns it when no document matches.
NoUser == [id |-> NoUserId, username |-> "", email |-> "", password |-> NoHash]

\* req.session after the middleware found nothing to load: a new session
\* under a new random id that is in no store and in no cookie.
NewSession == [id |-> NoSid, userId |-> NoUserId]

VARIABLES
    users,      \* the users collection: a set of user documents
    sessions,   \* the sessions collection: session id -> bound userId
    cookie,     \* each client's connect.sid cookie (a session id or NoSid)
    req,        \* each client's request: handler position, locals, response
    nextSid,    \* number of session ids generated so far
    nextSalt,   \* number of salts generated so far
    nRequests,  \* number of requests sent so far
    contacts,   \* the contacts collection: a set of contact documents
    expires,    \* the `expires` field of each record of the sessions collection
    now         \* the clock, in ticks of twelve hours

vars == <<users, sessions, cookie, req, nextSid, nextSalt, nRequests,
          contacts, expires, now>>


(***************************************************************************)
(* Password hasher (bcryptjs, called at server.js 114 and 134)             *)
(***************************************************************************)
\* The cost factor passed to bcrypt.hash.
SaltRounds == 10

\* bcrypt's digest of a password under a salt: a one-way value that is equal
\* for two inputs only if both the salt and the password are equal.
Digest(password, salt) == <<salt, password>>

HashUnsalted(password, salt) ==
    [cost |-> SaltRounds, salt |-> 0, digest |-> Digest(password, 0)]

\* bcrypt.hash(password, 10) with the salt it generated: the stored string
\* carries the cost, the salt and the digest.
Hash(password, salt) ==
    [cost |-> SaltRounds, salt |-> salt, digest |-> Digest(password, salt)]

CompareAlways(password, hash) == TRUE

\* bcrypt.compare(password, hash): recompute the digest under the salt kept
\* in the hash and compare.
Compare(password, hash) == Digest(password, hash.salt) = hash.digest

\* bcrypt.hash and bcrypt.compare reject (throw) when the password is not a
\* string; an empty string is a string.
IsString(v) == v # Undefined

(***************************************************************************)
(* User collection (UserSchema, server.js 86-92)                           *)
(***************************************************************************)
\* A `required: true` String path: present and not empty.
Required(v) == v # Undefined /\ v # ""

\* Mongoose validation of a User document before it is inserted.
ValidUser(doc) ==
    /\ Required(doc.username)
    /\ Required(doc.email)
    /\ doc.password # NoHash

UniqueIndexOff(us, doc) == TRUE

\* The unique index on email: the insert is refused (E11000) when a document
\* with that email is in the collection.
UniqueIndexOk(us, doc) == \A u \in us : u.email # doc.email

\* The _id of a new document: a value no other document has.
NextUserId(us) == Cardinality(us) + 1

\* The results User.findOne({ email }) can give.  With a string it is the
\* document with that email, or null.  With undefined the filter is either
\* sent as { email: null }, which matches nothing, or dropped, which matches
\* any document, depending on the mongoose version installed.
FindOne(us, email) ==
    IF email = Undefined
    THEN us \cup {NoUser}
    ELSE IF \E u \in us : u.email = email
         THEN {u \in us : u.email = email}
         ELSE {NoUser}

UserExistsNever(existingUser) == FALSE

\* `if (existingUser)` at server.js 112, `if (!user)` at 132.
UserExists(existingUser) == existingUser # NoUser

(***************************************************************************)
(* Session store and session middleware (server.js 51-58, 71-83)           *)
(***************************************************************************)
SaveUninitializedOn == TRUE

\* saveUninitialized: false
SaveUninitialized == FALSE

\* rolling is not set: express-session's default.
Rolling == FALSE

\* A session id generated by the middleware but not stored anywhere yet.
FreshSid == -1

\* req.session as the middleware generates it when there is nothing to load.
GeneratedSession(sid) == [id |-> sid, userId |-> NoUserId, exists |-> TRUE]

\* store.get(sid): the session record, or a newly generated session.
LoadSession(store, sid) ==
    IF sid # NoSid /\ sid \in DOMAIN store
    THEN [id |-> sid, userId |-> store[sid], exists |-> TRUE]
    ELSE GeneratedSession(FreshSid)

DestroyNothing(store, sid) == store

DestroyEverything(store, sid) == << >>

\* store.destroy(sid): the record is removed; removing an absent one succeeds.
DestroySession(store, sid) == [s \in DOMAIN store \ {sid} |-> store[s]]

\* store.set(sid, session): upsert of the record.
SetSession(store, session) ==
    [s \in DOMAIN store \cup {session.id} |->
        IF s = session.id THEN session.userId ELSE store[s]]

\* express-session's isModified: the session differs from what was loaded or
\* generated for this request.
IsModified(origin, session) ==
    origin.id # session.id \/ origin.userId # session.userId

\* express-session's shouldSave, with resave: false.
ShouldSave(cookieId, origin, session) ==
    /\ session.exists
    /\ IF cookieId # session.id
       THEN SaveUninitialized \/ IsModified(origin, session)
       ELSE IsModified(origin, session)

\* express-session's shouldSetCookie; the cookie has a maxAge, so a modified
\* loaded session would get its cookie again.
ShouldSetCookie(cookieId, origin, session) ==
    /\ session.exists
    /\ IF cookieId # session.id
       THEN SaveUninitialized \/ IsModified(origin, session)
       ELSE Rolling \/ IsModified(origin, session)

\* cookie.maxAge, 1000 * 60 * 60 * 24 ms, in clock ticks of twelve hours.
MaxAge == 2

\* req.session.cookie.expires as the middleware sets it when the response
\* ends at time t; store.set writes it into the record's `expires`.
CookieExpires(t) == t + MaxAge

StoreImplementsTouchOn == TRUE

\* connect-mongodb-session's MongoDBStore has no touch method, so the
\* middleware never asks it to move a record's expiry.
StoreImplementsTouch == FALSE

\* express-session's shouldTouch: the request came with the id of the session
\* it ends with, and the session is not being saved.
ShouldTouch(cookieId, origin, session) ==
    /\ session.exists
    /\ cookieId = session.id
    /\ ~ShouldSave(cookieId, origin, session)

\* store.get returns a record only while the clock is before its `expires`
\* (and the TTL index removes it): the records that are live at time t.
LiveAt(store, exp, t) == {sid \in DOMAIN store : t < exp[sid]}

\* The records store.get returns at time t.
LiveRecords(store, exp, t) == [sid \in LiveAt(store, exp, t) |-> store[sid]]

\* store.get(sid) destroys a record it finds expired: the store after a get.
StoreAfterGet(store, exp, t, sid) ==
    IF sid \in DOMAIN store /\ sid \notin LiveAt(store, exp, t)
    THEN DestroySession(store, sid)
    ELSE store

RegenerateKeepId(sessionId, fresh) == IF sessionId > NoSid THEN sessionId ELSE fresh

\* The id of the session that req.session.regenerate generates.
RegenerateId(sessionId, fresh) == fresh

LoginSessionUnbound(session, user) == session

\* `req.session.userId = user._id` at server.js 141.
LoginSession(session, user) == [session EXCEPT !.userId = user.id]

DashboardOpen(session) == TRUE

\* `if (!req.session.userId)` at server.js 161, negated.
DashboardAuthorized(session) == session.exists /\ session.userId # NoUserId

(***************************************************************************)
(* Responses                                                               *)
(***************************************************************************)
Reply(status, text) == [status |-> status, text |-> text]

RegisterExistsReply == Reply(400, "User already exists.")
RegisterOkReply == Reply(201, "User registered successfully!")
RegisterErrorReply == Reply(500, "Error registering user.")
LoginNoUserReplyDistinct == Reply(404, "No such user.")
LoginNoUserReply == Reply(400, "Invalid email or password.")
LoginMismatchReply == Reply(400, "Invalid email or password.")
LoginOkReply == Reply(200, "Login successful!")
LoginErrorReply == Reply(500, "Error logging in.")
LogoutOkReply == Reply(200, "Logout successful!")
LogoutErrorReply == Reply(500, "Error logging out.")
DashboardDeniedReply == Reply(401, "Unauthorized. Please log in.")
DashboardOkReply == Reply(200, "Welcome to your dashboard!")
ContactOkReply == Reply(201, "Message submitted successfully!")
ContactErrorReply == Reply(500, "Error submitting message.")
\* Express's default error handler, reached when the middleware calls next(err).
MiddlewareErrorReply == Reply(500, "Internal Server Error")
NoReply == Reply(0, "")

(***************************************************************************)
(* Requests                                                                *)
(***************************************************************************)
Kinds == {"register", "login", "logout", "dashboard", "contact"}

\* The bodies a client sends to a route.
Bodies(kind) ==
    CASE kind = "register" -> RegisterBodies
      [] kind = "login"    -> LoginBodies
      [] kind = "contact"  -> ContactBodies
      [] OTHER             -> {NoBody}

\* Where the route's handler starts once the middleware has run.
FirstStep(kind) ==
    CASE kind = "register"  -> "findOne"
      [] kind = "login"     -> "findOne"
      [] kind = "logout"    -> "destroy"
      [] kind = "dashboard" -> "handler"
      [] kind = "contact"   -> "contactSave"

\* A client that has not sent a request yet.
Idle ==
    [kind |-> "none", pc |-> "idle", body |-> NoBody, cookieId |-> NoSid,
     origin |-> GeneratedSession(FreshSid), session |-> GeneratedSession(FreshSid),
     user |-> NoUser, hashedPassword |-> NoHash, cookieExpires |-> 0,
     reply |-> NoReply, setCookie |-> "none", sid |-> NoSid]

\* A request the middleware has passed to its route handler.
Running(kind, body, cookieId, session) ==
    [Idle EXCEPT !.kind = kind, !.pc = FirstStep(kind), !.body = body,
                 !.cookieId = cookieId, !.origin = session, !.session = session]

\* A request whose response has been sent: the handler's locals are gone,
\* what the client saw is kept.
Done(r, reply, setCookie, sid) ==
    [Idle EXCEPT !.kind = r.kind, !.pc = "done", !.cookieId = r.cookieId,
                 !.reply = reply, !.setCookie = setCookie, !.sid = sid]

\* The client's cookie after a response.
CookieAfter(old, setCookie, sid) ==
    CASE setCookie = "set"   -> sid
      [] setCookie = "clear" -> NoSid
      [] OTHER               -> old

\* The response leaves the server (express-session's setcookie on headers):
\* Set-Cookie carries the session id when shouldSetCookie says so, and
\* res.clearCookie('connect.sid') expires the cookie.
Deliver(c, r, reply, clear) ==
    LET set == ShouldSetCookie(r.cookieId, r.origin, r.session)
        setCookie == IF set THEN "set" ELSE IF clear THEN "clear" ELSE "none"
        sid == IF set THEN r.session.id ELSE NoSid
    IN /\ req' = [req EXCEPT ![c] = Done(r, reply, setCookie, sid)]
       /\ cookie' = [cookie EXCEPT ![c] = CookieAfter(cookie[c], setCookie, sid)]

\* res.send / res.end under express-session: a session that has to be saved is
\* written to the store before the response ends.
EndResponse(c, r, reply, clear) ==
    IF ShouldSave(r.cookieId, r.origin, r.session)
    THEN /\ req' = [req EXCEPT ![c] = [r EXCEPT !.pc = "sessionSave", !.reply = reply]]
         /\ cookie' = cookie
    ELSE Deliver(c, r, reply, clear)

\* What the end of a response does to the expiry of the stored records: a
\* store with a touch method is asked to move the expiry of the session the
\* request came with.
TouchOnEnd(c) ==
    LET r == req[c] IN
    expires' =
        IF /\ req'[c].pc = "done"
           /\ StoreImplementsTouch
           /\ ShouldTouch(r.cookieId, r.origin, r.session)
           /\ r.session.id \in DOMAIN expires
        THEN [expires EXCEPT ![r.session.id] = CookieExpires(now)]
        ELSE expires

\* The `expires` fields of the records of `store`, record `sid` written anew.
ExpiresOf(store, sid, t) ==
    [s \in DOMAIN store |-> IF s = sid THEN t ELSE expires[s]]

(***************************************************************************)
(* Initial state: empty collections, no client holds a cookie              *)
(***************************************************************************)
Init ==
    /\ users = {}
    /\ contacts = {}
    /\ expires = << >>
    /\ now = 0
    /\ sessions = << >>
    /\ cookie = [c \in Clients |-> NoSid]
    /\ req = [c \in Clients |-> Idle]
    /\ nextSid = 0
    /\ nextSalt = 0
    /\ nRequests = 0

(***************************************************************************)
(* Session middleware (server.js 71-83)                                    *)
(***************************************************************************)
\* Client c sends a request; the middleware reads the cookie, loads the
\* session from the store and calls the route handler.  A failing store.get
\* is passed to next(err).
SendRequest(c, kind, body, storeOk) ==
    /\ req[c].pc \in {"idle", "done"}
    /\ nRequests < MaxRequests
    /\ nRequests' = nRequests + 1
    /\ (cookie[c] = NoSid => storeOk)
    /\ IF storeOk
       THEN /\ sessions' = StoreAfterGet(sessions, expires, now, cookie[c])
            /\ req' = [req EXCEPT ![c] =
                         [Running(kind, body, cookie[c],
                                  LoadSession(LiveRecords(sessions, expires, now), cookie[c]))
                            EXCEPT !.cookieExpires = CookieExpires(now)]]
            /\ cookie' = cookie
       ELSE /\ sessions' = sessions
            /\ Deliver(c, Running(kind, body, cookie[c], GeneratedSession(FreshSid))
                         , MiddlewareErrorReply, FALSE)
    /\ expires' = ExpiresOf(sessions', NoSid, 0)
    /\ UNCHANGED <<users, nextSid, nextSalt, contacts, now>>

(***************************************************************************)
(* POST /register (server.js 106-124)                                      *)
(***************************************************************************)
\* await User.findOne({ email }); if (existingUser) return 400
RegisterFindOne(c, storeOk) ==
    LET r == req[c] IN
    /\ r.kind = "register" /\ r.pc = "findOne"
    /\ IF ~storeOk
       THEN EndResponse(c, r, RegisterErrorReply, FALSE)
       ELSE \E existingUser \in FindOne(users, r.body.email) :
               IF UserExists(existingUser)
               THEN EndResponse(c, r, RegisterExistsReply, FALSE)
               ELSE /\ req' = [req EXCEPT ![c] = [r EXCEPT !.pc = "hash"]]
                    /\ cookie' = cookie
    /\ TouchOnEnd(c)
    /\ UNCHANGED <<users, sessions, nextSid, nextSalt, nRequests, contacts, now>>

\* await bcrypt.hash(password, 10)
RegisterHash(c) ==
    LET r == req[c] IN
    /\ r.kind = "register" /\ r.pc = "hash"
    /\ IF ~IsString(r.body.password)
       THEN /\ EndResponse(c, r, RegisterErrorReply, FALSE)
            /\ nextSalt' = nextSalt
       ELSE /\ nextSalt' = nextSalt + 1
            /\ req' = [req EXCEPT ![c] =
                         [r EXCEPT !.pc = "save",
                                   !.hashedPassword = Hash(r.body.password, nextSalt + 1)]]
            /\ cookie' = cookie
    /\ TouchOnEnd(c)
    /\ UNCHANGED <<users, sessions, nextSid, nRequests, contacts, now>>

RegisterSaveUpsert(c, storeOk) ==
    LET r == req[c]
        newUser == [id |-> NextUserId(users), username |-> r.body.username,
                    email |-> r.body.email, password |-> r.hashedPassword]
    IN
    /\ r.kind = "register" /\ r.pc = "save"
    /\ IF ValidUser(newUser) /\ storeOk
       THEN /\ users' = {u \in users : u.email # newUser.email} \cup {newUser}
            /\ EndResponse(c, r, RegisterOkReply, FALSE)
       ELSE /\ users' = users
            /\ EndResponse(c, r, RegisterErrorReply, FALSE)
    /\ TouchOnEnd(c)
    /\ UNCHANGED <<sessions, nextSid, nextSalt, nRequests, contacts, now>>

\* new User({ username, email, password: hashedPassword }); await newUser.save()
RegisterSave(c, storeOk) ==
    LET r == req[c]
        newUser == [id |-> NextUserId(users), username |-> r.body.username,
                    email |-> r.body.email, password |-> r.hashedPassword]
    IN
    /\ r.kind = "register" /\ r.pc = "save"
    /\ IF ValidUser(newUser) /\ storeOk /\ UniqueIndexOk(users, newUser)
       THEN /\ users' = users \cup {newUser}
            /\ EndResponse(c, r, RegisterOkReply, FALSE)
       ELSE /\ users' = users
            /\ EndResponse(c, r, RegisterErrorReply, FALSE)
    /\ TouchOnEnd(c)
    /\ UNCHANGED <<sessions, nextSid, nextSalt, nRequests, contacts, now>>

(***************************************************************************)
(* POST /login (server.js 127-148)                                         *)
(***************************************************************************)
\* await User.findOne({ email }); if (!user) return 400
LoginFindOne(c, storeOk) ==
    LET r == req[c] IN
    /\ r.kind = "login" /\ r.pc = "findOne"
    /\ IF ~storeOk
       THEN EndResponse(c, r, LoginErrorReply, FALSE)
       ELSE \E user \in FindOne(users, r.body.email) :
               IF ~UserExists(user)
               THEN EndResponse(c, r, LoginNoUserReply, FALSE)
               ELSE /\ req' = [req EXCEPT ![c] = [r EXCEPT !.pc = "compare", !.user = user]]
                    /\ cookie' = cookie
    /\ TouchOnEnd(c)
    /\ UNCHANGED <<users, sessions, nextSid, nextSalt, nRequests, contacts, now>>

LoginCompareClearing(c) ==
    LET r == req[c] IN
    /\ r.kind = "login" /\ r.pc = "compare"
    /\ IF ~IsString(r.body.password)
       THEN /\ sessions' = sessions
            /\ EndResponse(c, r, LoginErrorReply, FALSE)
       ELSE IF ~Compare(r.body.password, r.user.password)
       THEN /\ sessions' = DestroySession(sessions, r.session.id)
            /\ EndResponse(c, r, LoginMismatchReply, TRUE)
       ELSE /\ sessions' = sessions
            /\ req' = [req EXCEPT ![c] = [r EXCEPT !.pc = "regenerate"]]
            /\ cookie' = cookie
    /\ expires' = ExpiresOf(sessions', NoSid, 0)
    /\ UNCHANGED <<users, nextSid, nextSalt, nRequests, contacts, now>>

\* await bcrypt.compare(password, user.password); if (!isMatch) return 400
LoginCompare(c) ==
    LET r == req[c] IN
    /\ r.kind = "login" /\ r.pc = "compare"
    /\ IF ~IsString(r.body.password)
       THEN EndResponse(c, r, LoginErrorReply, FALSE)
       ELSE IF ~Compare(r.body.password, r.user.password)
       THEN EndResponse(c, r, LoginMismatchReply, FALSE)
       ELSE /\ req' = [req EXCEPT ![c] = [r EXCEPT !.pc = "regenerate"]]
            /\ cookie' = cookie
    /\ TouchOnEnd(c)
    /\ UNCHANGED <<users, sessions, nextSid, nextSalt, nRequests, contacts, now>>

LoginRegenerateWithoutDestroy(c, storeOk) ==
    LET r == req[c]
        generated == GeneratedSession(RegenerateId(r.session.id, nextSid + 1))
        fresh == [r EXCEPT !.origin = generated, !.session = generated,
                           !.cookieExpires = CookieExpires(now)]
    IN
    /\ r.kind = "login" /\ r.pc = "regenerate"
    /\ nextSid' = nextSid + 1
    /\ sessions' = sessions
    /\ IF storeOk
       THEN EndResponse(c, [fresh EXCEPT !.session = LoginSession(generated, r.user)],
                        LoginOkReply, FALSE)
       ELSE EndResponse(c, fresh, LoginErrorReply, FALSE)
    /\ expires' = ExpiresOf(sessions', NoSid, 0)
    /\ UNCHANGED <<users, nextSalt, nRequests, contacts, now>>

LoginRegenerateIgnoringError(c, storeOk) ==
    LET r == req[c]
        generated == GeneratedSession(RegenerateId(r.session.id, nextSid + 1))
        fresh == [r EXCEPT !.origin = generated, !.session = generated,
                           !.cookieExpires = CookieExpires(now)]
    IN
    /\ r.kind = "login" /\ r.pc = "regenerate"
    /\ nextSid' = nextSid + 1
    /\ sessions' = IF storeOk THEN DestroySession(sessions, r.session.id) ELSE sessions
    /\ EndResponse(c, [fresh EXCEPT !.session = LoginSession(generated, r.user)],
                   LoginOkReply, FALSE)
    /\ expires' = ExpiresOf(sessions', NoSid, 0)
    /\ UNCHANGED <<users, nextSalt, nRequests, contacts, now>>

\* req.session.regenerate(cb): the store destroys the record of the current
\* session id, a new session is generated either way, and cb gets the error.
\* cb binds the user id and sends the response, or sends 500.
LoginRegenerate(c, storeOk) ==
    LET r == req[c]
        generated == GeneratedSession(RegenerateId(r.session.id, nextSid + 1))
        fresh == [r EXCEPT !.origin = generated, !.session = generated,
                           !.cookieExpires = CookieExpires(now)]
    IN
    /\ r.kind = "login" /\ r.pc = "regenerate"
    /\ nextSid' = nextSid + 1
    /\ IF storeOk
       THEN /\ sessions' = DestroySession(sessions, r.session.id)
            /\ EndResponse(c, [fresh EXCEPT !.session = LoginSession(generated, r.user)],
                           LoginOkReply, FALSE)
       ELSE /\ sessions' = sessions
            /\ EndResponse(c, fresh, LoginErrorReply, FALSE)
    /\ expires' = ExpiresOf(sessions', NoSid, 0)
    /\ UNCHANGED <<users, nextSalt, nRequests, contacts, now>>

\* req.session.save() inside res.end: the response is written whether or not
\* the store took the session.
SessionSave(c, storeOk) ==
    LET r == req[c] IN
    /\ r.pc = "sessionSave"
    /\ sessions' = IF storeOk THEN SetSession(sessions, r.session) ELSE sessions
    /\ expires' = IF storeOk THEN ExpiresOf(sessions', r.session.id, r.cookieExpires)
                   ELSE expires
    /\ Deliver(c, r, r.reply, FALSE)
    /\ UNCHANGED <<users, nextSid, nextSalt, nRequests, contacts, now>>

(***************************************************************************)
(* POST /logout (server.js 151-157)                                        *)
(***************************************************************************)
LogoutDestroyStrict(c, storeOk) ==
    LET r == req[c]
        gone == [r EXCEPT !.session.exists = FALSE]
    IN
    /\ r.kind = "logout" /\ r.pc = "destroy"
    /\ IF storeOk /\ r.session.id \in DOMAIN sessions
       THEN /\ sessions' = DestroySession(sessions, r.session.id)
            /\ EndResponse(c, gone, LogoutOkReply, TRUE)
       ELSE /\ sessions' = sessions
            /\ EndResponse(c, gone, LogoutErrorReply, FALSE)
    /\ expires' = ExpiresOf(sessions', NoSid, 0)
    /\ UNCHANGED <<users, nextSid, nextSalt, nRequests, contacts, now>>

\* req.session.destroy(cb): req.session is deleted and the store destroys the
\* record; cb clears the cookie and answers, or answers 500.
LogoutDestroy(c, storeOk) ==
    LET r == req[c]
        gone == [r EXCEPT !.session.exists = FALSE]
    IN
    /\ r.kind = "logout" /\ r.pc = "destroy"
    /\ IF storeOk
       THEN /\ sessions' = DestroySession(sessions, r.session.id)
            /\ EndResponse(c, gone, LogoutOkReply, TRUE)
       ELSE /\ sessions' = sessions
            /\ EndResponse(c, gone, LogoutErrorReply, FALSE)
    /\ expires' = ExpiresOf(sessions', NoSid, 0)
    /\ UNCHANGED <<users, nextSid, nextSalt, nRequests, contacts, now>>

(***************************************************************************)
(* GET /dashboard (server.js 160-165)                                      *)
(***************************************************************************)
DashboardHandler(c) ==
    LET r == req[c] IN
    /\ r.kind = "dashboard" /\ r.pc = "handler"
    /\ IF DashboardAuthorized(r.session)
       THEN EndResponse(c, r, DashboardOkReply, FALSE)
       ELSE EndResponse(c, r, DashboardDeniedReply, FALSE)
    /\ TouchOnEnd(c)
    /\ UNCHANGED <<users, sessions, nextSid, nextSalt, nRequests, contacts, now>>

(***************************************************************************)
(* POST /contact (server.js 168-185)                                       *)
(***************************************************************************)
\* Mongoose validation of a Contact document (ContactSchema, 95-101).
ValidContact(doc) ==
    Required(doc.name) /\ Required(doc.email) /\ Required(doc.message)

\* new Contact({ name, email, message, userId: req.session.userId || null });
\* await newContact.save()
ContactSave(c, storeOk) ==
    LET r == req[c]
        newContact == [id |-> Cardinality(contacts) + 1, name |-> r.body.name,
                       email |-> r.body.email, message |-> r.body.message,
                       userId |-> r.session.userId, date |-> now]
    IN
    /\ r.kind = "contact" /\ r.pc = "contactSave"
    /\ IF ValidContact(newContact) /\ storeOk
       THEN /\ contacts' = contacts \cup {newContact}
            /\ EndResponse(c, r, ContactOkReply, FALSE)
       ELSE /\ contacts' = contacts
            /\ EndResponse(c, r, ContactErrorReply, FALSE)
    /\ TouchOnEnd(c)
    /\ UNCHANGED <<users, sessions, nextSid, nextSalt, nRequests, now>>

(***************************************************************************)
(* The clock and the expiry of session records (server.js 51-58, 80)       *)
(***************************************************************************)
\* Twelve hours pass.
Tick ==
    /\ now < MaxTime
    /\ now' = now + 1
    /\ UNCHANGED <<users, sessions, cookie, req, nextSid, nextSalt, nRequests,
                   contacts, expires>>

\* The TTL index on `expires` that the store creates: MongoDB removes the
\* records whose `expires` has been reached.
ExpireRecords ==
    /\ LiveAt(sessions, expires, now) # DOMAIN sessions
    /\ sessions' = [sid \in LiveAt(sessions, expires, now) |-> sessions[sid]]
    /\ expires' = [sid \in LiveAt(sessions, expires, now) |-> expires[sid]]
    /\ UNCHANGED <<users, cookie, req, nextSid, nextSalt, nRequests, contacts, now>>

(***************************************************************************)
(* Clients                                                                 *)
(***************************************************************************)
\* Client d comes to hold the cookie client c holds (a shared browser, a
\* cookie planted or stolen, or a copy kept from before a logout).
CopyCookie(c, d) ==
    /\ c # d
    /\ cookie[c] # NoSid
    /\ cookie[d] # cookie[c]
    /\ req[d].pc \in {"idle", "done"}
    /\ cookie' = [cookie EXCEPT ![d] = cookie[c]]
    /\ UNCHANGED <<users, sessions, req, nextSid, nextSalt, nRequests,
                   contacts, expires, now>>

Next ==
    \/ \E c \in Clients, kind \in Kinds, ok \in BOOLEAN :
          \E body \in Bodies(kind) : SendRequest(c, kind, body, ok)
    \/ \E c \in Clients, ok \in BOOLEAN : RegisterFindOne(c, ok)
    \/ \E c \in Clients : RegisterHash(c)
    \/ \E c \in Clients, ok \in BOOLEAN : RegisterSave(c, ok)
    \/ \E c \in Clients, ok \in BOOLEAN : LoginFindOne(c, ok)
    \/ \E c \in Clients : LoginCompare(c)
    \/ \E c \in Clients, ok \in BOOLEAN : LoginRegenerate(c, ok)
    \/ \E c \in Clients, ok \in BOOLEAN : SessionSave(c, ok)
    \/ \E c \in Clients, ok \in BOOLEAN : LogoutDestroy(c, ok)
    \/ \E c \in Clients : DashboardHandler(c)
    \/ \E c \in Clients, ok \in BOOLEAN : ContactSave(c, ok)
    \/ \E c, d \in Clients : CopyCookie(c, d)

\* The requests and their interleavings, within the lifetime of the sessions.
Spec == Init /\ [][Next]_vars

\* A request sent while the clock runs: the stores work, and the client
\* registers, logs in with the registered credentials, logs out, opens the
\* dashboard or submits a message.
TimedSend(c) ==
    \E kind \in Kinds :
       \E body \in Bodies(kind) :
          /\ kind = "register" =>
                body = [username |-> "alice", email |-> "a@x.com", password |-> "secret"]
          /\ kind = "login" =>
                body = [username |-> Undefined, email |-> "a@x.com", password |-> "secret"]
          /\ SendRequest(c, kind, body, TRUE)

NextT ==
    \/ Tick
    \/ ExpireRecords
    \/ \E c \in Clients : TimedSend(c)
    \/ \E c \in Clients : RegisterFindOne(c, TRUE)
    \/ \E c \in Clients : RegisterHash(c)
    \/ \E c \in Clients : RegisterSave(c, TRUE)
    \/ \E c \in Clients : LoginFindOne(c, TRUE)
    \/ \E c \in Clients : LoginCompare(c)
    \/ \E c \in Clients : LoginRegenerate(c, TRUE)
    \/ \E c \in Clients : SessionSave(c, TRUE)
    \/ \E c \in Clients : LogoutDestroy(c, TRUE)
    \/ \E c \in Clients : DashboardHandler(c)
    \/ \E c \in Clients : ContactSave(c, TRUE)
    \/ \E c, d \in Clients : CopyCookie(c, d)

\* The same system with the clock running.
SpecT == Init /\ [][NextT]_vars

(***************************************************************************)
(* Shared vocabulary of the properties                                     *)
(***************************************************************************)
\* The emails of the documents in the user collection.
StoredEmails == {u.email : u \in users}

\* A register body with all three fields present and not empty.
CompleteBody(body) ==
    Required(body.username) /\ Required(body.email) /\ Required(body.password)

\* What a client can observe of a finished request.
Observed(r) == [reply |-> r.reply, setCookie |-> r.setCookie, sid |-> r.sid]

\* The request of client c has been answered with `reply`.
Answered(c, kind, reply) ==
    req[c].kind = kind /\ req[c].pc = "done" /\ req[c].reply = reply

(***************************************************************************)
(* C1: POST /register with an email that is in the user store answers 400  *)
(* 'User already exists.' and leaves the user store as it is, whatever     *)
(* username and password come with it; a register with complete fields     *)
(* whose email is not in the store when it is inserted answers 201 and     *)
(* adds exactly one user document, the one with that email (both absent a  *)
(* store failure).                                                         *)
(***************************************************************************)
C1_DuplicateEmailRejected ==
    [][\A c \in Clients :
        /\ (RegisterFindOne(c, TRUE) /\ req[c].body.email \in StoredEmails)
              => /\ req'[c].pc = "done"
                 /\ req'[c].reply = Reply(400, "User already exists.")
                 /\ users' = users
        /\ (RegisterSave(c, TRUE) /\ CompleteBody(req[c].body)
                                  /\ req[c].body.email \notin StoredEmails)
              => /\ req'[c].pc = "done"
                 /\ req'[c].reply.status = 201
                 /\ Cardinality(users') = Cardinality(users) + 1
                 /\ \E u \in users' :
                       /\ users' = users \cup {u}
                       /\ u.email = req[c].body.email
                       /\ u.username = req[c].body.username
      ]_vars

\* A duplicate registration has been refused after a first one succeeded.
C1_Witness ==
    \E c \in Clients :
        /\ Answered(c, "register", Reply(400, "User already exists."))
        /\ Cardinality(users) = 1

(***************************************************************************)
(* C2: when two registrations of one email both pass the existence check,  *)
(* the one whose insert the unique index refuses is answered 400 'User     *)
(* already exists.', like the pre-check path.                              *)
(***************************************************************************)
C2_RaceLoserGetsAlreadyExists ==
    [][\A c \in Clients :
        (RegisterSave(c, TRUE) /\ CompleteBody(req[c].body)
                               /\ req[c].body.email \in StoredEmails)
           => req'[c].reply = Reply(400, "User already exists.")
      ]_vars

(***************************************************************************)
(* C3: the user store never holds two documents with the same email, under *)
(* any interleaving of requests.                                           *)
(***************************************************************************)
C3_UniqueEmail ==
    \A u, v \in users : u.email = v.email => u = v

\* Two registrations of one email have both passed the existence check: one
\* is stored, the other is about to insert.
C3_Witness ==
    \E c \in Clients :
        /\ req[c].kind = "register" /\ req[c].pc = "save"
        /\ CompleteBody(req[c].body)
        /\ req[c].body.email \in StoredEmails

(***************************************************************************)
(* C4: POST /login with an email no user has, and POST /login with a       *)
(* registered email and a password that does not match, give the client    *)
(* the same observation: status 400, 'Invalid email or password.', no      *)
(* cookie.                                                                 *)
(***************************************************************************)
C4_LoginFailuresIndistinguishable ==
    [][\A c \in Clients :
        LET unknownEmail ==
                /\ LoginFindOne(c, TRUE)
                /\ IsString(req[c].body.email)
                /\ req[c].body.email \notin StoredEmails
            wrongPassword ==
                /\ LoginCompare(c)
                /\ IsString(req[c].body.password)
                /\ ~Compare(req[c].body.password, req[c].user.password)
        IN (unknownEmail \/ wrongPassword)
              => /\ req'[c].pc = "done"
                 /\ Observed(req'[c]) =
                       [reply |-> Reply(400, "Invalid email or password."),
                        setCookie |-> "none", sid |-> NoSid]
      ]_vars

\* One client has been refused for an unknown email while another, with a
\* registered email, is about to be refused for its password.
C4_Witness ==
    \E c, d \in Clients :
        /\ Answered(c, "login", Reply(400, "Invalid email or password."))
        /\ req[d].kind = "login" /\ req[d].pc = "compare"
        /\ req[d].body.email \in StoredEmails
        /\ IsString(req[d].body.password)
        /\ ~Compare(req[d].body.password, req[d].user.password)

(***************************************************************************)
(* C5: POST /login with the email of a registered user and the password    *)
(* that user registered with goes through every step (absent a store or    *)
(* regeneration failure), is answered 200, and leaves the client holding   *)
(* the cookie of a stored session bound to that user's id, so that GET     *)
(* /dashboard with that cookie is authorized.                              *)
(***************************************************************************)
C5_CorrectLoginEstablishesSession ==
    [][\A c \in Clients :
        LET r == req[c] IN
        /\ (LoginFindOne(c, TRUE) /\ r.body.email \in StoredEmails)
              => /\ req'[c].pc = "compare"
                 /\ req'[c].user \in users
                 /\ req'[c].user.email = r.body.email
        /\ (LoginCompare(c) /\ IsString(r.body.password)
                            /\ r.user.password = Hash(r.body.password, r.user.password.salt))
              => req'[c].pc = "regenerate"
        /\ LoginRegenerate(c, TRUE)
              => /\ req'[c].pc = "sessionSave"
                 /\ req'[c].reply.status = 200
                 /\ req'[c].session.userId = r.user.id
        /\ (SessionSave(c, TRUE) /\ r.kind = "login")
              => /\ req'[c].pc = "done"
                 /\ req'[c].reply = Reply(200, "Login successful!")
                 /\ cookie'[c] \in DOMAIN sessions'
                 /\ sessions'[cookie'[c]] = r.session.userId
                 /\ r.session.userId # NoUserId
                 /\ DashboardAuthorized(LoadSession(sessions', cookie'[c]))
      ]_vars

\* A login has succeeded and the client holds the cookie of the stored
\* session of the registered user.
C5_Witness ==
    \E c \in Clients :
        /\ Answered(c, "login", Reply(200, "Login successful!"))
        /\ cookie[c] \in DOMAIN sessions
        /\ \E u \in users : u.id = sessions[cookie[c]]

(***************************************************************************)
(* C6: every POST /login answered 200 issues a session id to the client,   *)
(* and that id differs from the session id the request presented.          *)
(***************************************************************************)
C6_LoginIssuesNewSessionId ==
    \A c \in Clients :
        (req[c].kind = "login" /\ req[c].pc = "done" /\ req[c].reply.status = 200)
           => /\ req[c].setCookie = "set"
              /\ req[c].sid # NoSid
              /\ req[c].sid # req[c].cookieId

\* A login that presented a session id has succeeded.
C6_Witness ==
    \E c \in Clients :
        /\ Answered(c, "login", Reply(200, "Login successful!"))
        /\ req[c].cookieId # NoSid

(***************************************************************************)
(* C7: once POST /logout has answered 200 to a request that presented a    *)
(* session id, the store holds no record under that id, and a GET          *)
(* /dashboard sent afterwards with that id resolves to no user and is      *)
(* answered 401.                                                           *)
(***************************************************************************)
\* The session ids whose logout has been answered 200.
LoggedOut ==
    {req[c].cookieId : c \in {d \in Clients :
        Answered(d, "logout", Reply(200, "Logout successful!"))}} \ {NoSid}

C7_LogoutDestroysSession ==
    /\ [](\A sid \in LoggedOut : sid \notin DOMAIN sessions)
    /\ [][\A c \in Clients :
            /\ (SendRequest(c, "dashboard", NoBody, TRUE) /\ cookie[c] \in LoggedOut)
                  => /\ req'[c].pc = "handler"
                     /\ req'[c].session.userId = NoUserId
            /\ (DashboardHandler(c) /\ req[c].cookieId \in LoggedOut
                                     /\ req[c].session.userId = NoUserId)
                  => req'[c].reply.status = 401
         ]_vars

\* A dashboard request with the cookie of a logged-out session was refused.
C7_Witness ==
    \E c \in Clients :
        /\ req[c].kind = "dashboard" /\ req[c].pc = "done"
        /\ req[c].cookieId \in LoggedOut
        /\ req[c].reply.status = 401

(***************************************************************************)
(* C8: POST /register with a username, email or password that is missing   *)
(* or empty is answered with a 4xx status and creates no user document     *)
(* (absent a store failure).                                               *)
(***************************************************************************)
C8_IncompleteRegisterIsClientError ==
    [][\A c \in Clients :
        (/\ RegisterFindOne(c, TRUE) \/ RegisterHash(c) \/ RegisterSave(c, TRUE)
         /\ ~CompleteBody(req[c].body))
           => /\ users' = users
              /\ req'[c].pc = "done" => req'[c].reply.status \in 400..499
      ]_vars

(***************************************************************************)
(* C9: GET /dashboard answers 200 exactly when the session the middleware  *)
(* resolved for the request has a userId, and 401 otherwise; a request     *)
(* without a cookie, or whose cookie matches no session record, resolves   *)
(* to a session without userId.                                            *)
(***************************************************************************)
C9_DashboardGuard ==
    [][\A c \in Clients :
        /\ SendRequest(c, "dashboard", NoBody, TRUE)
              => /\ req'[c].pc = "handler"
                 /\ req'[c].session.userId =
                       IF cookie[c] # NoSid /\ cookie[c] \in DOMAIN sessions
                       THEN sessions[cookie[c]] ELSE NoUserId
        /\ DashboardHandler(c)
              => /\ req'[c].pc = "done"
                 /\ req'[c].reply.status = 200 <=> req[c].session.userId # NoUserId
                 /\ req[c].session.userId = NoUserId =>
                       req'[c].reply = Reply(401, "Unauthorized. Please log in.")
      ]_vars

\* One dashboard request was let in and another, whose cookie matched no
\* session record, was refused.
C9_Witness ==
    \E c, d \in Clients :
        /\ Answered(c, "dashboard", Reply(200, "Welcome to your dashboard!"))
        /\ Answered(d, "dashboard", Reply(401, "Unauthorized. Please log in."))

(***************************************************************************)
(* C10: no step of POST /register writes the session store, sets a cookie  *)
(* or changes the client's cookie, so a client that GET /dashboard would   *)
(* refuse before registering is still refused after it.                    *)
(***************************************************************************)
C10_RegisterCreatesNoSession ==
    [][\A c \in Clients :
        (req[c].kind = "register" /\ req[c].pc # "done" /\ req'[c] # req[c])
           => /\ sessions' = sessions
              /\ cookie' = cookie
              /\ req'[c].pc \in {"hash", "save", "done"}
              /\ req'[c].setCookie = "none"
              /\ DashboardAuthorized(LoadSession(sessions', cookie'[c]))
                    = DashboardAuthorized(LoadSession(sessions, cookie[c]))
      ]_vars

\* A registration has succeeded; there is no session and no cookie.
C10_Witness ==
    \E c \in Clients :
        /\ Answered(c, "register", Reply(201, "User registered successfully!"))
        /\ sessions = << >>
        /\ cookie[c] = NoSid

(***************************************************************************)
(* C11: POST /logout for a request whose session has no record in the      *)
(* store (never established, or destroyed already) answers 200 'Logout     *)
(* successful!' and leaves the session store as it was, unless the store   *)
(* reports an error.                                                       *)
(***************************************************************************)
C11_LogoutIdempotent ==
    [][\A c \in Clients :
        (LogoutDestroy(c, TRUE) /\ req[c].session.id \notin DOMAIN sessions)
           => /\ req'[c].pc = "done"
              /\ req'[c].reply = Reply(200, "Logout successful!")
              /\ sessions' = sessions
              /\ expires' = expires
      ]_vars

\* Two logouts that presented the same session id have both been answered
\* 200: the later one destroyed a record that was gone.
C11_Witness ==
    \E c, d \in Clients :
        /\ c # d
        /\ Answered(c, "logout", Reply(200, "Logout successful!"))
        /\ Answered(d, "logout", Reply(200, "Logout successful!"))
        /\ req[c].cookieId = req[d].cookieId
        /\ req[c].cookieId # NoSid

StoreOperationFails(c) ==
    \/ \E kind \in Kinds \ {"dashboard"} :
          \E body \in Bodies(kind) : SendRequest(c, kind, body, FALSE)
    \/ RegisterFindOne(c, FALSE)
    \/ RegisterSave(c, FALSE)
    \/ LoginFindOne(c, FALSE)
    \/ LoginRegenerate(c, FALSE)
    \/ SessionSave(c, FALSE)
    \/ LogoutDestroy(c, FALSE)
    \/ ContactSave(c, FALSE)

C13_StoreFailureIsServerError ==
    [][\A c \in Clients :
        StoreOperationFails(c)
           => /\ req'[c].pc = "done"
              /\ req'[c].reply.status = 500
      ]_vars

(***************************************************************************)
(* C14: two registered users whose plaintext passwords are the same have   *)
(* different password values in their user documents, and each stored      *)
(* value is the salted hash made by bcrypt.hash, not the plaintext.        *)
(***************************************************************************)
\* The passwords that clients register with.
Plaintexts == {b.password : b \in RegisterBodies} \ {Undefined}

C14_SaltedHashesDiffer ==
    /\ \A u, v \in users : \A p \in Plaintexts :
          (u # v /\ Compare(p, u.password) /\ Compare(p, v.password))
             => u.password # v.password
    /\ \A u \in users : \E p \in Plaintexts :
          /\ u.password.salt \in 1..nextSalt
          /\ u.password = [cost |-> SaltRounds, salt |-> u.password.salt,
                           digest |-> Digest(p, u.password.salt)]
          /\ u.password.digest # Digest(p, 0)

\* Two users registered with the same password.
C14_Witness ==
    \E u, v \in users : \E p \in Plaintexts :
        u # v /\ Compare(p, u.password) /\ Compare(p, v.password)

(***************************************************************************)
(* C15: once POST /login has answered 200 to a request that presented a    *)
(* session id, the store holds no record under that pre-login id, whether  *)
(* or not the pre-login session was authenticated, and a GET /dashboard    *)
(* sent afterwards with that id resolves to no user and is answered 401.   *)
(***************************************************************************)
\* The session ids presented on logins that have been answered 200.
Superseded ==
    {req[c].cookieId : c \in {d \in Clients :
        Answered(d, "login", Reply(200, "Login successful!"))}} \ {NoSid}

C15_PreLoginIdIsDead ==
    /\ [](\A sid \in Superseded : sid \notin DOMAIN sessions)
    /\ [][\A c \in Clients :
            /\ (LoginRegenerate(c, TRUE) /\ req[c].session.userId # NoUserId)
                  => req[c].session.id \notin DOMAIN sessions'
            /\ (SendRequest(c, "dashboard", NoBody, TRUE) /\ cookie[c] \in Superseded)
                  => /\ req'[c].pc = "handler"
                     /\ req'[c].session.userId = NoUserId
            /\ (DashboardHandler(c) /\ req[c].cookieId \in Superseded
                                     /\ req[c].session.userId = NoUserId)
                  => req'[c].reply = Reply(401, "Unauthorized. Please log in.")
         ]_vars

\* One client logged in again over its session id; another client then
\* presented that old id to the dashboard and was refused.
C15_Witness ==
    \E c, d \in Clients :
        /\ Answered(c, "login", Reply(200, "Login successful!"))
        /\ req[c].cookieId # NoSid
        /\ req[d].kind = "dashboard" /\ req[d].pc = "done"
        /\ req[d].cookieId = req[c].cookieId
        /\ req[d].reply.status = 401

(***************************************************************************)
(* C16: the user store only grows, and only by a POST /register that is    *)
(* answered 201, which adds exactly one new document; every step of        *)
(* /login, /logout, /dashboard and /contact leaves the user store as it    *)
(* was, and no step changes or removes an existing user document.          *)
(***************************************************************************)
C16_UsersOnlyCreatedByRegister ==
    [][/\ users \subseteq users'
       /\ users' # users
             => \E c \in Clients :
                   /\ req[c].kind = "register"
                   /\ RegisterSave(c, TRUE)
                   /\ req'[c].reply = Reply(201, "User registered successfully!")
                   /\ \E u \in users' \ users : users' = users \cup {u}
                   /\ Cardinality(users') = Cardinality(users) + 1
       /\ \A c \in Clients :
             (req[c].kind \in {"login", "logout", "dashboard", "contact"}
                /\ req'[c] # req[c])
                => users' = users
       /\ \A c \in Clients :
             (RegisterSave(c, TRUE)
                /\ req'[c].reply = Reply(201, "User registered successfully!"))
                => Cardinality(users') = Cardinality(users) + 1
      ]_vars

\* Two users have registered, and a later contact message was accepted.
C16_Witness ==
    /\ Cardinality(users) = 2
    /\ \E c \in Clients :
          Answered(c, "contact", Reply(201, "Message submitted successfully!"))

(***************************************************************************)
(* C17: the expiry of a session record is set once, MaxAge (24 hours)      *)
(* after the login that created the session, and no later step moves it:   *)
(* GET /dashboard and POST /contact made with the session leave it as it   *)
(* is; a GET /dashboard sent with the session id once the expiry has been  *)
(* reached resolves to no user and is answered 401.                        *)
(***************************************************************************)
C17_ExpiryIsAbsolute ==
    /\ [](\A sid \in DOMAIN sessions : expires[sid] <= now + MaxAge)
    /\ [][/\ \A sid \in DOMAIN sessions \cap DOMAIN sessions' :
                expires'[sid] = expires[sid]
          /\ \A c \in Clients :
                /\ LoginRegenerate(c, TRUE)
                      => req'[c].cookieExpires = now + MaxAge
                /\ (SessionSave(c, TRUE) /\ req[c].kind = "login")
                      => /\ req[c].session.id \in DOMAIN sessions'
                         /\ expires'[req[c].session.id] = req[c].cookieExpires
                /\ ((DashboardHandler(c) \/ ContactSave(c, TRUE))
                      /\ req[c].session.id \in DOMAIN sessions)
                      => /\ req[c].session.id \in DOMAIN sessions'
                         /\ expires'[req[c].session.id] = expires[req[c].session.id]
                /\ (/\ SendRequest(c, "dashboard", NoBody, TRUE)
                    /\ cookie[c] \in DOMAIN sessions
                    /\ expires[cookie[c]] <= now)
                      => /\ req'[c].pc = "handler"
                         /\ req'[c].session.userId = NoUserId
                /\ (/\ DashboardHandler(c)
                    /\ req[c].cookieId \in DOMAIN sessions
                    /\ expires[req[c].cookieId] <= now
                    /\ req[c].session.userId = NoUserId)
                      => req'[c].reply = Reply(401, "Unauthorized. Please log in.")
         ]_vars

\* A session id that opened the dashboard for one client was refused for
\* another once its 24 hours had passed.
C17_Witness ==
    \E c, d \in Clients :
        /\ Answered(c, "dashboard", Reply(200, "Welcome to your dashboard!"))
        /\ req[c].cookieId # NoSid
        /\ req[d].kind = "dashboard" /\ req[d].pc = "done"
        /\ req[d].cookieId = req[c].cookieId
        /\ req[d].reply.status = 401
        /\ now >= MaxAge

(***************************************************************************)
(* C18: in every reachable state each session record that carries a       *)
(* userId carries the id of a document in the user store; a userId enters  *)
(* the session store only with the save of a session that POST /login      *)
(* bound to the user it found, after the password of the request verified  *)
(* against that user's stored hash; no other step writes one.              *)
(***************************************************************************)
\* `password` is the plaintext that `user`'s stored hash was made from.
Verifies(password, user) ==
    /\ password # Undefined
    /\ user.password # NoHash
    /\ user.password.digest = <<user.password.salt, password>>

\* The session records that carry a userId.
Bindings(store) ==
    {<<sid, store[sid]>> : sid \in {s \in DOMAIN store : store[s] # NoUserId}}

C18_SessionsBoundByVerifiedLogin ==
    /\ [](\A b \in Bindings(sessions) : \E u \in users : u.id = b[2])
    /\ [][\A b \in Bindings(sessions') \ Bindings(sessions) :
            \E c \in Clients :
               /\ req[c].kind = "login" /\ req[c].pc = "sessionSave"
               /\ SessionSave(c, TRUE)
               /\ req[c].session.id = b[1]
               /\ req[c].user \in users
               /\ req[c].user.id = b[2]
               /\ Verifies(req[c].body.password, req[c].user)
               /\ req[c].reply = Reply(200, "Login successful!")
         ]_vars

\* A logged-in client's contact message was stored under the id of the user
\* its session is bound to.
C18_Witness ==
    \E c \in Clients :
        /\ Answered(c, "contact", Reply(201, "Message submitted successfully!"))
        /\ req[c].cookieId \in DOMAIN sessions
        /\ \E u \in users :
              /\ u.id = sessions[req[c].cookieId]
              /\ \E k \in contacts : k.userId = u.id

(***************************************************************************)
(* C19: a POST /login answered 400 (unknown email or wrong password)       *)
(* changes no session record and issues or clears no cookie: the session   *)
(* the request came with is neither regenerated nor destroyed, and a       *)
(* requester who was logged in keeps its session id, still bound to the    *)
(* same user.                                                              *)
(***************************************************************************)
C19_FailedLoginKeepsSession ==
    [][\A c \in Clients :
         /\ (\E body \in LoginBodies : SendRequest(c, "login", body, TRUE))
               => sessions' = sessions /\ expires' = expires /\ cookie' = cookie
         /\ ((LoginFindOne(c, TRUE) \/ LoginCompare(c))
               /\ req'[c].pc = "done" /\ req'[c].reply.status = 400)
               => /\ sessions' = sessions
                  /\ expires' = expires
                  /\ nextSid' = nextSid
                  /\ cookie' = cookie
                  /\ req'[c].setCookie = "none"
                  /\ req[c].session.id \in DOMAIN sessions
                        => /\ req[c].session.id \in DOMAIN sessions'
                           /\ sessions'[req[c].session.id] = req[c].session.userId
      ]_vars

\* A logged-in client's login with a wrong password or unknown email was
\* refused, and the client still holds its session.
C19_Witness ==
    \E c \in Clients :
        /\ req[c].kind = "login" /\ req[c].pc = "done" /\ req[c].reply.status = 400
        /\ req[c].cookieId \in DOMAIN sessions
        /\ sessions[req[c].cookieId] # NoUserId
        /\ cookie[c] = req[c].cookieId

(***************************************************************************)
(* C20: POST /logout removes from the session store at most the record of  *)
(* the session the request presented; every other record, those of the     *)
(* same user's other logins included, stays with its userId, and its id    *)
(* still resolves to a session that GET /dashboard answers with 200.       *)
(***************************************************************************)
\* The reply GET /dashboard gives to a request that presents session id sid.
DashboardReplyFor(store, sid) ==
    IF DashboardAuthorized(LoadSession(store, sid))
    THEN DashboardOkReply
    ELSE DashboardDeniedReply

C20_LogoutLeavesOtherSessions ==
    [][\A c \in Clients : \A ok \in BOOLEAN :
         /\ SendRequest(c, "logout", NoBody, ok) => sessions' = sessions
         /\ LogoutDestroy(c, ok)
               => /\ DOMAIN sessions \ DOMAIN sessions' \subseteq {req[c].cookieId}
                  /\ \A sid \in DOMAIN sessions \ {req[c].cookieId} :
                        /\ sid \in DOMAIN sessions'
                        /\ sessions'[sid] = sessions[sid]
                        /\ expires'[sid] = expires[sid]
                        /\ sessions[sid] # NoUserId
                              => DashboardReplyFor(sessions', sid)
                                    = Reply(200, "Welcome to your dashboard!")
      ]_vars

\* One of a user's two sessions was logged out; the other one is still in
\* the store, bound to the user.
C20_Witness ==
    \E c, d \in Clients :
        /\ c # d
        /\ Answered(c, "logout", Reply(200, "Logout successful!"))
        /\ req[c].cookieId # NoSid
        /\ req[c].cookieId \notin DOMAIN sessions
        /\ Answered(d, "login", Reply(200, "Login successful!"))
        /\ cookie[d] \in DOMAIN sessions
        /\ \E u \in users : users = {u} /\ sessions[cookie[d]] = u.id

=============================================================================
